---- MODULE Spec2Model ----
(***************************************************************************)
(* s5cmd: the worker pool, the wildcard coordinator (wildOperation), the   *)
(* sub-job notification (Job.Notify) and the exit code of main.            *)
(*                                                                         *)
(* A command file is a short sequence of jobs.  Workers take jobs from the *)
(* main channel and from the sub-job channel.  A batch job runs            *)
(* wildOperation on its worker: it starts a waiter task and a producer     *)
(* task and blocks until the waiter closes doneCh or the context is done.  *)
(*                                                                         *)
(* Further specifications cover the parts that do not share state with the *)
(* batch machinery: CmdSpec (command files of unitary jobs, with           *)
(* abort-on-any-error and unhandled operation tags), LcSpec (local copy    *)
(* and move), BdSpec (the batch sub-job builders), StSpec (the S3 storage  *)
(* calls), LbSpec (ListBuckets), PrSpec (PrintOK and PrintErr), SjSpec     *)
(* (the counters a batch job shares with its sub-jobs), DlSpec (the        *)
(* batches of a delete), LgSpec (the logger) and SlSpec (s3list).          *)
(***************************************************************************)
EXTENDS Integers, Sequences, FiniteSets, TLC

\* ---------------------------------------------------------------- bounds
NumWorkers == 1     \* workers of the pool
MaxCmds    == 2     \* lines of the command file
MaxBatch   == 1     \* batch (wildcard) jobs in the command file
MaxItems   == 2     \* responses of one listing
MaxEmit    == 2     \* cap on the sub-jobs one producer counts
SubQCap    == 1     \* capacity of the sub-job channel
MaxExitArg == 0     \* largest argument of an exit command
MaxUnitCmds == 3    \* lines of a command file of unitary jobs
MaxContent == 4     \* distinct file contents
MaxDepth   == 2     \* names in a path
MaxPages   == 2     \* pages of a bucket listing
MaxPageLen == 2     \* keys in one page
MaxBuckets == 2     \* buckets of the account
MaxNameLen == 2     \* characters of a bucket name
MaxCount   == 1     \* largest value of a job counter before the job ends
MaxSubJobs == 4     \* sub-jobs of one batch job that complete
MaxKeys    == 1002  \* keys a batch delete lists
MaxMsgs    == 2     \* calls of printf

\* ------------------------------------------------------ program constants
DefaultExitCode == -1    \* exitCode := -1
FailExitCode    == 127
ErrInterrupted  == "operation interrupted"
ErrIncomplete   == "not all jobs completed successfully"
ErrUnhandled    == "unhandled operation"
ErrCanceled     == "request canceled"
NoError         == "nil"
NotExited       == -2    \* the process is still running (no os.Exit yet)
Absent          == 0     \* the content of a file that does not exist
Nil             == -1    \* a nil counter pointer of a Job

Workers  == 1..NumWorkers
Idx      == 1..MaxCmds
ExitArgs == DefaultExitCode..MaxExitArg

\* One response of a listing stream: an item for which the callback builds
\* a job, an item for which it returns nil, or a response carrying Err.
Responses == {"job", "nojob", "err"}

RECURSIVE SeqsUpTo(_, _)
SeqsUpTo(S, n) ==
    IF n = 0 THEN {<<>>}
    ELSE LET shorter == SeqsUpTo(S, n - 1)
         IN  shorter \cup {Append(s, x) : s \in {t \in shorter : Len(t) = n - 1}, x \in S}

\* A stream closes after its first error: "err" can only be the last response.
Listings ==
    {l \in SeqsUpTo(Responses, MaxItems) :
        \A i \in 1..Len(l) : l[i] = "err" => i = Len(l)}

\* The jobs a command file can hold.
Commands ==
    {[op |-> "batch", n |-> 0], [op |-> "plain", n |-> 0]}
        \cup {[op |-> "exit", n |-> a] : a \in ExitArgs}

CommandFiles ==
    {f \in SeqsUpTo(Commands, MaxCmds) :
        /\ Len(f) >= 1
        /\ Cardinality({i \in 1..Len(f) : f[i].op = "batch"}) <= MaxBatch}

\* The jobs of a command file of unitary jobs: abort-on-any-error, a job
\* whose handler fails, a job whose handler succeeds, and a job whose
\* operation tag has no handler in the registry.
UnitCommands ==
    {[op |-> o, n |-> 0] : o \in {"abort", "bad", "good", "unknown"}}

UnitFiles == {f \in SeqsUpTo(UnitCommands, MaxUnitCmds) : Len(f) >= 1}

\* globalCmdRegistry: the operation tags that have a handler.
Registered == {"batch", "plain", "exit", "abort", "bad", "good"}

NoJob == [kind |-> "none", idx |-> 0, item |-> 0]
MainJob(i) == [kind |-> "main", idx |-> i, item |-> 0]
SubJob(p, i) == [kind |-> "sub", idx |-> p, item |-> i]

VARIABLES
    file,          \* the command file, fixed after Init
    listing,       \* what storage.List yields for the URL of the batch jobs
    mainQ,         \* main job channel: indexes into file
    subQ,          \* sub-job channel
    ctxDone,       \* the root context is cancelled
    exitCode,      \* main's exitCode variable
    exitStatus,    \* argument of os.Exit, NotExited while running
    exitsRun,      \* the arguments of the exit commands that called exitFunc
    intrFails,     \* how many counted failures were interrupted batch jobs
    failops,       \* stats.Fail
    wpc, wjob,     \* workers: position and job held
    ppc, via, sLoaded, result,   \* wildOperation of batch job p (on its worker)
    wait, numSuccess, subJobCounter, doneCh,   \* subjobStats, counter, doneCh
    waiterpc,      \* the waiter task of p
    prodpc, stream, cur,    \* the producer task of p, its current stream and item
    adds, made, sent, notified, notifiedOK,    \* history of p's sub-jobs
    abortOnError,  \* the flag set by abort-on-any-error
    handled,       \* how many times Job.Run called a handler of the registry
    lcpc, lcMove, lcOrig, lcSrc, lcDst, lcRes,  \* a local copy or move job
    bdDst, bdObj, bdParents, bdJob,  \* a batch command, a listed object, the sub-job built
    sctx,          \* the context passed to the storage call is done
    sop, spc, sres,         \* the storage call: operation, position, error returned
    pages,         \* List: the pages the backend answers with
    pageNo, itemNo,         \* List: the page in the callback, the next key of it
    itemChan,      \* List: the sends pending on itemChan
    chanReturned,  \* List: the caller has been handed itemChan
    lbBackend, lbPrefix, lbRet,    \* ListBuckets: o.Buckets, prefix, what is returned
    prpc, prJob,   \* a job that has ended: position, the Job as it ended
    prCnt,         \* the counters numSuccess, numFails, numAcceptableFails
    prLog, prShort, \* the lines of log.Printf, the short lines of Job.out
    sjCnt,         \* the counters a batch job shares with its sub-jobs
    sjDone,        \* the sub-jobs of the batch job that have completed
    dlpc, dlListed, dlAcc, dlReqs,  \* a batch delete: keys listed, held, requests sent
    lgLevel,       \* logger: the configured level
    stdoutCh, stdoutClosed,  \* logger: the messages buffered in stdoutCh, it is closed
    donech,        \* logger: donech is closed
    lgOut,         \* logger: the messages written by the writer task
    lgSent,        \* logger: the level of each call of printf so far
    lgClose,       \* logger: position of Close, with the messages sent when it started
    lgPanic,       \* logger: a send on, or a second close of, the closed stdoutCh
    slpc,          \* s3list: position
    canceled,      \* s3list: the canceled flag
    emitChan,      \* s3list: the send pending on emitChan
    emitted,       \* s3list: what the reader of emitChan has received
    emitClosed,    \* s3list: emitChan is closed
    pagingErr      \* s3list: err of ListObjectsV2PagesWithContext

unitVars == <<abortOnError, handled>>
lcVars   == <<lcpc, lcMove, lcOrig, lcSrc, lcDst, lcRes>>

\* The variables outside the pool's batch machinery.
bdVars   == <<bdDst, bdObj, bdParents, bdJob>>
stVars   == <<sctx, sop, spc, sres, pages, pageNo, itemNo, itemChan, chanReturned>>
lbVars   == <<lbBackend, lbPrefix, lbRet>>
prVars   == <<prpc, prJob, prCnt, prLog, prShort>>
sjVars   == <<sjCnt, sjDone>>
dlVars   == <<dlpc, dlListed, dlAcc, dlReqs>>
lgVars   == <<lgLevel, stdoutCh, stdoutClosed, donech, lgOut, lgSent, lgClose, lgPanic>>
slVars   == <<slpc, canceled, emitChan, emitted, emitClosed, pagingErr>>
moreVars == <<sjVars, dlVars, lgVars, slVars>>
compVars == <<unitVars, lcVars, bdVars, stVars, lbVars, prVars, moreVars>>

vars == <<file, listing, mainQ, subQ, ctxDone, exitCode, exitStatus, exitsRun, intrFails,
          failops, wpc, wjob, ppc, via, sLoaded, result, wait,
          numSuccess, subJobCounter, doneCh, waiterpc, prodpc, stream, cur,
          adds, made, sent, notified, notifiedOK, compVars>>

mainVars   == <<exitCode, exitStatus, exitsRun, failops, intrFails>>
workerVars == <<wpc, wjob>>
parentVars == <<ppc, via, sLoaded, result>>
statVars   == <<wait, numSuccess>>
prodVars   == <<prodpc, stream, cur>>
histVars   == <<adds, made, sent, notified, notifiedOK>>
fixedVars  == <<file, listing, compVars>>
poolVars   == <<file, listing, mainQ, subQ, ctxDone, mainVars, workerVars,
                parentVars, statVars, subJobCounter, doneCh, waiterpc,
                prodVars, histVars>>

Alive == exitStatus = NotExited

\* ------------------------------------------------------------------ Init
\* The pool before any job was taken.
PoolRest ==
    /\ subQ = <<>>
    /\ ctxDone = FALSE
    /\ exitCode = DefaultExitCode
    /\ exitStatus = NotExited
    /\ exitsRun = {}
    /\ intrFails = 0
    /\ failops = 0
    /\ wpc = [w \in Workers |-> "poll"]
    /\ wjob = [w \in Workers |-> NoJob]
    /\ ppc = [p \in Idx |-> "idle"]
    /\ via = [p \in Idx |-> "none"]
    /\ sLoaded = [p \in Idx |-> 0]
    /\ result = [p \in Idx |-> "none"]
    /\ wait = [p \in Idx |-> 0]
    /\ numSuccess = [p \in Idx |-> 0]
    /\ subJobCounter = [p \in Idx |-> 0]
    /\ doneCh = [p \in Idx |-> FALSE]
    /\ waiterpc = [p \in Idx |-> "none"]
    /\ prodpc = [p \in Idx |-> "none"]
    /\ stream = [p \in Idx |-> <<>>]
    /\ cur = [p \in Idx |-> 0]
    /\ adds = [p \in Idx |-> 0]
    /\ made = [p \in Idx |-> [i \in 1..MaxItems |-> 0]]
    /\ sent = [p \in Idx |-> 0]
    /\ notified = [p \in Idx |-> 0]
    /\ notifiedOK = [p \in Idx |-> 0]

\* The flag is clear and no handler has been called.
UnitRest ==
    /\ abortOnError = FALSE
    /\ handled = 0

\* No local copy job.
LcRest ==
    /\ lcpc = "none"
    /\ lcMove = FALSE
    /\ lcOrig = Absent
    /\ lcSrc = Absent
    /\ lcDst = Absent
    /\ lcRes = "none"

\* No batch command.
BdRest ==
    /\ bdDst = <<>>
    /\ bdObj = <<>>
    /\ bdParents = FALSE
    /\ bdJob = [builder |-> "none", op |-> "none", src |-> <<>>, dst |-> <<>>]

\* No storage call.
StRest ==
    /\ sctx = FALSE
    /\ sop = "none"
    /\ spc = "idle"
    /\ sres = "none"
    /\ pages = <<>>
    /\ pageNo = 0
    /\ itemNo = 0
    /\ itemChan = <<>>
    /\ chanReturned = FALSE

\* No ListBuckets call.
LbRest ==
    /\ lbBackend = <<>>
    /\ lbPrefix = <<>>
    /\ lbRet = [buckets |-> <<>>, err |-> "none"]

NoCounters == [numSuccess |-> Nil, numFails |-> Nil, numAcceptableFails |-> Nil]

\* No job to report.
PrRest ==
    /\ prpc = "none"
    /\ prJob = [internal |-> FALSE, isSubJob |-> FALSE, cnt |-> NoCounters]
    /\ prCnt = NoCounters
    /\ prLog = <<>>
    /\ prShort = <<>>

\* No batch job sharing counters.
SjRest ==
    /\ sjCnt = NoCounters
    /\ sjDone = <<>>

\* No batch delete.
DlRest ==
    /\ dlpc = "none"
    /\ dlListed = 0
    /\ dlAcc = {}
    /\ dlReqs = <<>>

\* No logger.
LgRest ==
    /\ lgLevel = 0
    /\ stdoutCh = <<>>
    /\ stdoutClosed = FALSE
    /\ donech = FALSE
    /\ lgOut = <<>>
    /\ lgSent = <<>>
    /\ lgClose = [pc |-> "none", sent |-> 0]
    /\ lgPanic = FALSE

\* No s3list call.
SlRest ==
    /\ slpc = "none"
    /\ canceled = FALSE
    /\ emitChan = <<>>
    /\ emitted = <<>>
    /\ emitClosed = FALSE
    /\ pagingErr = "none"

MoreRest ==
    /\ SjRest
    /\ DlRest
    /\ LgRest
    /\ SlRest

CoreRest ==
    /\ UnitRest
    /\ LcRest
    /\ BdRest
    /\ StRest
    /\ LbRest
    /\ PrRest

CompRest ==
    /\ CoreRest
    /\ MoreRest

\* A pool without a command file.
PoolIdle ==
    /\ file = <<>>
    /\ listing = <<>>
    /\ mainQ = <<>>
    /\ PoolRest

Init ==
    /\ file \in CommandFiles
    /\ listing \in Listings
    /\ (\A i \in 1..Len(file) : file[i].op # "batch") => listing = <<>>
    /\ mainQ = [i \in 1..Len(file) |-> i]
    /\ PoolRest
    /\ CompRest

\* A command file of unitary jobs.
UnitInit ==
    /\ file \in UnitFiles
    /\ listing = <<>>
    /\ mainQ = [i \in 1..Len(file) |-> i]
    /\ PoolRest
    /\ CompRest

\* ------------------------------------------------------ pure operations
\* Job.Notify with Done() moved inside `if success`.
NotifyDoneOnSuccess(st, parent, success) ==
    IF parent = 0 \/ ~success THEN st
    ELSE [wait       |-> [st.wait EXCEPT ![parent] = @ - 1],
          numSuccess |-> [st.numSuccess EXCEPT ![parent] = @ + 1]]

\* Job.Notify: st is the pair of parent counters, parent is the job's
\* subJobData (0 for nil).
Notify(st, parent, success) ==
    IF parent = 0 THEN st
    ELSE [wait       |-> [st.wait EXCEPT ![parent] = @ - 1],
          numSuccess |-> [st.numSuccess EXCEPT ![parent] =
                                IF success THEN @ + 1 ELSE @]]

\* The error wildOperation returns, from the loaded success count and the
\* counter of issued sub-jobs.
WildResult(s, counter) == IF s # counter THEN ErrIncomplete ELSE NoError

\* exitFunc of main: the new exitCode.
ExitFunc(code) == code

\* main with the failure test ahead of the test of exitCode.
ExitStatusFailFirst(code, fails) ==
    IF fails > 0 THEN FailExitCode
    ELSE IF code = DefaultExitCode THEN 0 ELSE code

\* The argument main passes to os.Exit.
ExitStatusOf(code, fails) ==
    IF code = DefaultExitCode
    THEN IF fails > 0 THEN FailExitCode ELSE 0
    ELSE code

\* The stream a call of storage.List returns: a fresh stream over the whole
\* listing, or a single cancellation error when the context is already done.
ListStream == IF ctxDone THEN <<"err">> ELSE listing

\* The position in the listing of the head of the remaining stream s.
ItemIndex(s) == Len(listing) - Len(s) + 1

\* The worker counts an error as a failure unless it is acceptable or an
\* interruption.
CountsAsFail(res) == res \notin {NoError, "accept", ErrInterrupted}

\* Job.Run with the registry lookup left out: the result of the handler
\* call, whatever the tag.
JobRunNoLookup(op, handlerResult) == handlerResult

\* Job.Run: the error for a tag without a handler, else what the handler
\* returned.
JobRun(op, handlerResult) ==
    IF op \notin Registered THEN ErrUnhandled ELSE handlerResult

\* What the handler of a unitary job of a unit file returns.
UnitOutcomes(op) ==
    (IF op = "bad" THEN {"fail"} ELSE {NoError})
        \cup (IF ctxDone /\ op # "abort" THEN {ErrInterrupted} ELSE {})

\* The outcomes a unitary handler can have.
PlainOutcomes == {NoError, "fail", "accept"} \cup (IF ctxDone THEN {ErrInterrupted} ELSE {})
SubOutcomes   == {NoError, "fail"} \cup (IF ctxDone THEN {ErrInterrupted} ELSE {})

\* --------------------------------------------------------------- workers
\* The worker polls the sub-job channel first.
WorkerPoll(w) ==
    /\ wpc[w] = "poll"
    /\ IF subQ # <<>>
       THEN /\ wjob' = [wjob EXCEPT ![w] = Head(subQ)]
            /\ subQ' = Tail(subQ)
            /\ wpc' = [wpc EXCEPT ![w] = "exec"]
       ELSE /\ wpc' = [wpc EXCEPT ![w] = "select"]
            /\ UNCHANGED <<wjob, subQ>>
    /\ UNCHANGED <<fixedVars, mainQ, ctxDone, mainVars, parentVars,
                   statVars, subJobCounter, doneCh, waiterpc, prodVars, histVars>>

\* The combined select: a sub-job, a main job, or ctx.Done.
WorkerSelectSub(w) ==
    /\ wpc[w] = "select"
    /\ subQ # <<>>
    /\ wjob' = [wjob EXCEPT ![w] = Head(subQ)]
    /\ subQ' = Tail(subQ)
    /\ wpc' = [wpc EXCEPT ![w] = "exec"]
    /\ UNCHANGED <<fixedVars, mainQ, ctxDone, mainVars, parentVars,
                   statVars, subJobCounter, doneCh, waiterpc, prodVars, histVars>>

WorkerSelectMain(w) ==
    /\ wpc[w] = "select"
    /\ mainQ # <<>>
    /\ wjob' = [wjob EXCEPT ![w] = MainJob(Head(mainQ))]
    /\ mainQ' = Tail(mainQ)
    /\ wpc' = [wpc EXCEPT ![w] = "exec"]
    /\ UNCHANGED <<fixedVars, subQ, ctxDone, mainVars, parentVars,
                   statVars, subJobCounter, doneCh, waiterpc, prodVars, histVars>>

WorkerSelectDone(w) ==
    /\ wpc[w] = "select"
    /\ ctxDone
    /\ wpc' = [wpc EXCEPT ![w] = "stopped"]
    /\ UNCHANGED <<fixedVars, mainQ, subQ, ctxDone, mainVars, wjob,
                   parentVars, statVars, subJobCounter, doneCh, waiterpc,
                   prodVars, histVars>>

\* After Job.Run returned res: the worker counts the failure, logs, calls
\* job.Notify and goes back to polling.
Finish(w, res) ==
    /\ LET job    == wjob[w]
           parent == IF job.kind = "sub" THEN job.idx ELSE 0
           st     == Notify([wait |-> wait, numSuccess |-> numSuccess],
                            parent, res = NoError)
       IN  /\ wait' = st.wait
           /\ numSuccess' = st.numSuccess
           /\ notified' = IF parent = 0 THEN notified
                          ELSE [notified EXCEPT ![parent] = @ + 1]
           /\ notifiedOK' = IF parent # 0 /\ res = NoError
                            THEN [notifiedOK EXCEPT ![parent] = @ + 1]
                            ELSE notifiedOK
    /\ failops' = IF CountsAsFail(res) THEN failops + 1 ELSE failops
    /\ intrFails' = IF /\ CountsAsFail(res)
                       /\ wjob[w].kind = "main"
                       /\ file[wjob[w].idx].op = "batch"
                       /\ via[wjob[w].idx] = "cancel"
                    THEN intrFails + 1 ELSE intrFails
    /\ wpc' = [wpc EXCEPT ![w] = "poll"]
    /\ wjob' = [wjob EXCEPT ![w] = NoJob]

\* A sub-job: a unitary handler, then the end of the job.
WorkerRunSub(w) ==
    /\ wpc[w] = "exec"
    /\ wjob[w].kind = "sub"
    /\ \E r \in SubOutcomes : Finish(w, r)
    /\ UNCHANGED <<fixedVars, mainQ, subQ, ctxDone, exitCode, exitStatus, exitsRun,
                   parentVars, subJobCounter, doneCh, waiterpc, prodVars,
                   adds, made, sent>>

\* A unitary job of the command file.
WorkerRunPlain(w) ==
    /\ wpc[w] = "exec"
    /\ wjob[w].kind = "main"
    /\ file[wjob[w].idx].op = "plain"
    /\ \E r \in PlainOutcomes : Finish(w, r)
    /\ UNCHANGED <<fixedVars, mainQ, subQ, ctxDone, exitCode, exitStatus, exitsRun,
                   parentVars, subJobCounter, doneCh, waiterpc, prodVars,
                   adds, made, sent>>

\* `exit N`: the handler calls exitFunc(N), which sets exitCode and cancels.
WorkerRunExit(w) ==
    /\ wpc[w] = "exec"
    /\ wjob[w].kind = "main"
    /\ file[wjob[w].idx].op = "exit"
    /\ exitCode' = ExitFunc(file[wjob[w].idx].n)
    /\ ctxDone' = TRUE
    /\ exitsRun' = exitsRun \cup {file[wjob[w].idx].n}
    /\ Finish(w, NoError)
    /\ UNCHANGED <<fixedVars, mainQ, subQ, exitStatus, parentVars,
                   subJobCounter, doneCh, waiterpc, prodVars, adds, made, sent>>

\* abort-on-any-error: the handler sets the flag.
WorkerRunAbort(w) ==
    /\ wpc[w] = "exec"
    /\ wjob[w].kind = "main"
    /\ file[wjob[w].idx].op = "abort"
    /\ abortOnError' = TRUE
    /\ handled' = handled + 1
    /\ Finish(w, JobRun("abort", NoError))
    /\ UNCHANGED <<file, listing, moreVars, lcVars, bdVars, stVars, lbVars, prVars, mainQ, subQ, ctxDone, exitCode,
                   exitStatus, exitsRun, parentVars, subJobCounter, doneCh,
                   waiterpc, prodVars, adds, made, sent>>

\* A unitary job of a unit file; with the flag set, a counted failure
\* cancels the root context.
WorkerRunUnit(w) ==
    /\ wpc[w] = "exec"
    /\ wjob[w].kind = "main"
    /\ file[wjob[w].idx].op \in {"good", "bad"}
    /\ \E r \in UnitOutcomes(file[wjob[w].idx].op) :
          LET res == JobRun(file[wjob[w].idx].op, r)
          IN  /\ Finish(w, res)
              /\ ctxDone' = (ctxDone \/ (abortOnError /\ CountsAsFail(res)))
    /\ handled' = handled + 1
    /\ UNCHANGED <<file, listing, moreVars, abortOnError, lcVars, bdVars, stVars, lbVars, prVars, mainQ, subQ, exitCode,
                   exitStatus, exitsRun, parentVars, subJobCounter, doneCh,
                   waiterpc, prodVars, adds, made, sent>>

\* A job whose tag is not in the registry: Job.Run returns before any
\* handler is called.
WorkerRunUnknown(w) ==
    /\ wpc[w] = "exec"
    /\ wjob[w].kind = "main"
    /\ file[wjob[w].idx].op \notin Registered
    /\ LET res == JobRun(file[wjob[w].idx].op, NoError)
       IN  /\ Finish(w, res)
           /\ ctxDone' = (ctxDone \/ (abortOnError /\ CountsAsFail(res)))
           /\ handled' = IF res = ErrUnhandled THEN handled ELSE handled + 1
    /\ UNCHANGED <<file, listing, moreVars, abortOnError, lcVars, bdVars, stVars, lbVars, prVars, mainQ, subQ, exitCode,
                   exitStatus, exitsRun, parentVars, subJobCounter, doneCh,
                   waiterpc, prodVars, adds, made, sent>>

\* --------------------------------------------------------- wildOperation
\* The handler of a batch job enters wildOperation: fresh stats, the waiter
\* task and the producer task are started, then it blocks in the select.
WildStart(w) ==
    /\ wpc[w] = "exec"
    /\ wjob[w].kind = "main"
    /\ file[wjob[w].idx].op = "batch"
    /\ ppc[wjob[w].idx] = "idle"
    /\ LET p == wjob[w].idx
       IN  /\ ppc' = [ppc EXCEPT ![p] = "select"]
           /\ waiterpc' = [waiterpc EXCEPT ![p] = "wait"]
           /\ prodpc' = [prodpc EXCEPT ![p] = "list"]
    /\ UNCHANGED <<fixedVars, mainQ, subQ, ctxDone, mainVars, workerVars, via,
                   sLoaded, result, statVars, subJobCounter, doneCh, stream,
                   cur, histVars>>

\* The waiter: subjobStats.Wait() returns when the counter is zero, then
\* doneCh is closed.
WaiterWake(p) ==
    /\ waiterpc[p] = "wait"
    /\ wait[p] = 0
    /\ doneCh' = [doneCh EXCEPT ![p] = TRUE]
    /\ waiterpc' = [waiterpc EXCEPT ![p] = "done"]
    /\ UNCHANGED <<fixedVars, mainQ, subQ, ctxDone, mainVars, workerVars,
                   parentVars, statVars, subJobCounter, prodVars, histVars>>

\* The producer evaluates the channel operand of its select: a call of
\* wp.storage.List, once per iteration of the loop.
ProducerList(p) ==
    /\ prodpc[p] = "list"
    /\ stream' = [stream EXCEPT ![p] = ListStream]
    /\ prodpc' = [prodpc EXCEPT ![p] = "recv"]
    /\ UNCHANGED <<fixedVars, mainQ, subQ, ctxDone, mainVars, workerVars,
                   parentVars, statVars, subJobCounter, doneCh, waiterpc, cur,
                   histVars>>

\* case res, ok := <-stream: closed, an error, or an item for the callback.
ProducerRecv(p) ==
    /\ prodpc[p] = "recv"
    /\ IF stream[p] = <<>> \/ Head(stream[p]) = "err"
       THEN /\ prodpc' = [prodpc EXCEPT ![p] = "done"]
            /\ UNCHANGED <<stream, cur, made>>
       ELSE /\ stream' = [stream EXCEPT ![p] = Tail(@)]
            /\ IF Head(stream[p]) = "job"
               THEN /\ subJobCounter[p] < MaxEmit
                    /\ cur' = [cur EXCEPT ![p] = ItemIndex(stream[p])]
                    /\ made' = [made EXCEPT ![p][ItemIndex(stream[p])] = @ + 1]
                    /\ prodpc' = [prodpc EXCEPT ![p] = "add"]
               ELSE /\ prodpc' = [prodpc EXCEPT ![p] = "list"]
                    /\ UNCHANGED <<cur, made>>
    /\ UNCHANGED <<fixedVars, mainQ, subQ, ctxDone, mainVars, workerVars,
                   parentVars, statVars, subJobCounter, doneCh, waiterpc,
                   adds, sent, notified, notifiedOK>>

\* case <-wp.ctx.Done() of the outer select.
ProducerRecvCancel(p) ==
    /\ prodpc[p] = "recv"
    /\ ctxDone
    /\ prodpc' = [prodpc EXCEPT ![p] = "done"]
    /\ UNCHANGED <<fixedVars, mainQ, subQ, ctxDone, mainVars, workerVars,
                   parentVars, statVars, subJobCounter, doneCh, waiterpc,
                   stream, cur, histVars>>

\* j.subJobData = &subjobStats; subjobStats.Add(1)
ProducerAdd(p) ==
    /\ prodpc[p] = "add"
    /\ wait' = [wait EXCEPT ![p] = @ + 1]
    /\ adds' = [adds EXCEPT ![p] = @ + 1]
    /\ prodpc' = [prodpc EXCEPT ![p] = "count"]
    /\ UNCHANGED <<fixedVars, mainQ, subQ, ctxDone, mainVars, workerVars,
                   parentVars, numSuccess, subJobCounter, doneCh, waiterpc,
                   stream, cur, made, sent, notified, notifiedOK>>

\* subJobCounter++
ProducerCount(p) ==
    /\ prodpc[p] = "count"
    /\ subJobCounter' = [subJobCounter EXCEPT ![p] = @ + 1]
    /\ prodpc' = [prodpc EXCEPT ![p] = "send"]
    /\ UNCHANGED <<fixedVars, mainQ, subQ, ctxDone, mainVars, workerVars,
                   parentVars, statVars, doneCh, waiterpc, stream, cur, histVars>>

\* case *wp.subJobQueue <- j
ProducerSend(p) ==
    /\ prodpc[p] = "send"
    /\ Len(subQ) < SubQCap
    /\ subQ' = Append(subQ, SubJob(p, cur[p]))
    /\ sent' = [sent EXCEPT ![p] = @ + 1]
    /\ prodpc' = [prodpc EXCEPT ![p] = "list"]
    /\ UNCHANGED <<fixedVars, mainQ, ctxDone, mainVars, workerVars, parentVars,
                   statVars, subJobCounter, doneCh, waiterpc, stream, cur,
                   adds, made, notified, notifiedOK>>

\* case <-wp.ctx.Done() of the inner select: the submission is abandoned.
ProducerSendCancel(p) ==
    /\ prodpc[p] = "send"
    /\ ctxDone
    /\ prodpc' = [prodpc EXCEPT ![p] = "done"]
    /\ UNCHANGED <<fixedVars, mainQ, subQ, ctxDone, mainVars, workerVars,
                   parentVars, statVars, subJobCounter, doneCh, waiterpc,
                   stream, cur, histVars>>

\* The parent's select: case <-doneCh
ParentSelectDone(p) ==
    /\ ppc[p] = "select"
    /\ doneCh[p]
    /\ ppc' = [ppc EXCEPT ![p] = "load"]
    /\ via' = [via EXCEPT ![p] = "done"]
    /\ UNCHANGED <<fixedVars, mainQ, subQ, ctxDone, mainVars, workerVars,
                   sLoaded, result, statVars, subJobCounter, doneCh, waiterpc,
                   prodVars, histVars>>

\* The parent's select without a usable ctx.Done case: it proceeds only
\* once doneCh is closed.
ParentSelectNoCancel(p) ==
    /\ ppc[p] = "select"
    /\ ctxDone
    /\ doneCh[p]
    /\ ppc' = [ppc EXCEPT ![p] = "load"]
    /\ via' = [via EXCEPT ![p] = "cancel"]
    /\ UNCHANGED <<fixedVars, mainQ, subQ, ctxDone, mainVars, workerVars,
                   sLoaded, result, statVars, subJobCounter, doneCh, waiterpc,
                   prodVars, histVars>>

\* The parent's select: case <-wp.ctx.Done()
ParentSelectCancel(p) ==
    /\ ppc[p] = "select"
    /\ ctxDone
    /\ ppc' = [ppc EXCEPT ![p] = "load"]
    /\ via' = [via EXCEPT ![p] = "cancel"]
    /\ UNCHANGED <<fixedVars, mainQ, subQ, ctxDone, mainVars, workerVars,
                   sLoaded, result, statVars, subJobCounter, doneCh, waiterpc,
                   prodVars, histVars>>

\* s := atomic.LoadUint32(&subjobStats.numSuccess)
ParentLoad(p) ==
    /\ ppc[p] = "load"
    /\ sLoaded' = [sLoaded EXCEPT ![p] = numSuccess[p]]
    /\ ppc' = [ppc EXCEPT ![p] = "cmp"]
    /\ UNCHANGED <<fixedVars, mainQ, subQ, ctxDone, mainVars, workerVars,
                   via, result, statVars, subJobCounter, doneCh, waiterpc,
                   prodVars, histVars>>

\* if s != subJobCounter { err = ... }; return err -- and the worker that
\* ran the batch job ends it.
ParentReturn(p) ==
    /\ ppc[p] = "cmp"
    /\ result' = [result EXCEPT ![p] = WildResult(sLoaded[p], subJobCounter[p])]
    /\ ppc' = [ppc EXCEPT ![p] = "ret"]
    /\ \E w \in Workers :
          /\ wpc[w] = "exec"
          /\ wjob[w] = MainJob(p)
          /\ Finish(w, WildResult(sLoaded[p], subJobCounter[p]))
    /\ UNCHANGED <<fixedVars, mainQ, subQ, ctxDone, exitCode, exitStatus, exitsRun,
                   via, sLoaded, subJobCounter, doneCh, waiterpc,
                   prodVars, adds, made, sent>>

\* ------------------------------------------------- local copy and move
FileStates == {Absent} \cup (1..MaxContent)

\* A LocalCopy job from a source file to a destination file, as a copy or,
\* with DeleteSource, as a move.
LcInit ==
    /\ lcpc = "stat"
    /\ lcMove \in BOOLEAN
    /\ lcOrig \in FileStates
    /\ lcSrc = lcOrig
    /\ lcDst \in FileStates
    /\ lcRes = "none"

\* The step after the transfer when the source is deleted whatever the
\* transfer returned.
AfterTransferAlways(move, ok) == IF move THEN "delete" ELSE "done"

\* The step after the transfer: the source is deleted only when the job
\* is a move and the transfer succeeded.
AfterTransfer(move, ok) == IF move /\ ok THEN "delete" ELSE "done"

\* The handler resolves the source.
LcStat ==
    /\ lcpc = "stat"
    /\ IF lcSrc = Absent
       THEN lcpc' = "done" /\ lcRes' = "fail"
       ELSE lcpc' = "transfer" /\ lcRes' = lcRes
    /\ UNCHANGED <<poolVars, moreVars, unitVars, bdVars, stVars, lbVars, prVars, lcMove, lcOrig, lcSrc, lcDst>>

\* The transfer primitive: on success the destination holds the source's
\* contents; on failure nothing is known of the destination.
LcTransfer ==
    /\ lcpc = "transfer"
    /\ \E ok \in BOOLEAN :
          /\ lcpc' = AfterTransfer(lcMove, ok)
          /\ lcRes' = IF ok THEN NoError ELSE "fail"
          /\ IF ok THEN lcDst' = lcSrc ELSE lcDst' \in FileStates
    /\ UNCHANGED <<poolVars, moreVars, unitVars, bdVars, stVars, lbVars, prVars, lcMove, lcOrig, lcSrc>>

\* The source is removed; a failing removal is the job's error.
LcDelete ==
    /\ lcpc = "delete"
    /\ lcpc' = "done"
    /\ \/ lcSrc' = Absent /\ lcRes' = lcRes
       \/ lcSrc' = lcSrc /\ lcRes' = "fail"
    /\ UNCHANGED <<poolVars, moreVars, unitVars, bdVars, stVars, lbVars, prVars, lcMove, lcOrig, lcDst>>

LcNext == LcStat \/ LcTransfer \/ LcDelete

\* Only the local copy job is active.
LcSpecInit ==
    /\ PoolIdle
    /\ MoreRest
    /\ UnitRest
    /\ LcInit
    /\ BdRest
    /\ StRest
    /\ LbRest
    /\ PrRest

LcSpec == LcSpecInit /\ [][LcNext]_vars

\* ------------------------------------------------ batch sub-job builders
\* Paths are strings, modelled as sequences of characters.
Sep == "/"
Names == {"a", "b"}

\* The clean paths of at most n names: names separated by one separator.
RECURSIVE NamePaths(_)
NamePaths(n) ==
    IF n = 0 THEN {}
    ELSE {<<c>> : c \in Names}
            \cup {p \o <<Sep, c>> : p \in NamePaths(n - 1), c \in Names}

\* Destination paths: the root, a directory, with or without a trailing
\* separator.  Object paths: keys.
DstPaths == {<<>>} \cup NamePaths(MaxDepth) \cup {p \o <<Sep>> : p \in NamePaths(MaxDepth)}
ObjPaths == NamePaths(MaxDepth)

\* path.Clean on paths without dot elements: runs of separators collapse
\* and a trailing separator is dropped, except for the root.
RECURSIVE Collapse(_)
Collapse(s) ==
    IF Len(s) <= 1 THEN s
    ELSE IF s[1] = Sep /\ s[2] = Sep THEN Collapse(Tail(s))
    ELSE <<s[1]>> \o Collapse(Tail(s))

PathClean(s) ==
    LET c == Collapse(s)
    IN  IF c = <<>> THEN <<".">>
        ELSE IF Len(c) > 1 /\ c[Len(c)] = Sep THEN SubSeq(c, 1, Len(c) - 1)
        ELSE c

\* path.Join / filepath.Join of two elements: empty elements are ignored,
\* the rest is joined by the separator and cleaned.
PathJoin(a, b) ==
    IF a = <<>> /\ b = <<>> THEN <<>>
    ELSE IF a = <<>> THEN PathClean(b)
    ELSE IF b = <<>> THEN PathClean(a)
    ELSE PathClean(a \o <<Sep>> \o b)

\* path.Base: the last element, trailing separators removed.
RECURSIVE PathBase(_)
PathBase(s) ==
    IF s = <<>> THEN <<".">>
    ELSE IF s[Len(s)] = Sep
         THEN IF Len(s) = 1 THEN <<Sep>> ELSE PathBase(SubSeq(s, 1, Len(s) - 1))
    ELSE IF \E i \in 1..Len(s) : s[i] = Sep
         THEN LET last == CHOOSE i \in 1..Len(s) :
                             s[i] = Sep /\ \A k \in (i + 1)..Len(s) : s[k] # Sep
              IN  SubSeq(s, last + 1, Len(s))
    ELSE s

\* The file name appended to the destination.
DstFn(obj, parents) == IF parents THEN obj ELSE PathBase(obj)

\* S3BatchDownload: the path of the sub-job's destination.
S3BatchDownloadDst(dst, obj, parents) == PathJoin(dst, DstFn(obj, parents))

\* S3BatchCopy: the path of the URL "s3://bucket/" + dst.Path + dstFn.
S3BatchCopyDst(dst, obj, parents) == dst \o DstFn(obj, parents)

\* The operations of a batch command, which fan out into sub-jobs.
BatchOps == {"BatchDownload", "AliasBatchGet", "BatchCopy"}

\* S3BatchDownload handing the operation of the command on to the sub-job.
S3BatchDownloadOpSame(commandOp) == commandOp

\* S3BatchDownload: the operation of the job it makes.
S3BatchDownloadOp(commandOp) == "Download"

\* S3BatchCopy: the operation of the job it makes.
S3BatchCopyOp(commandOp) == "Copy"

\* command.makeJob: a job of the operation, from src to dst.
MakeJob(builder, operation, src, dst) ==
    [builder |-> builder, op |-> operation, src |-> src, dst |-> dst]

BdInit ==
    /\ bdDst \in DstPaths
    /\ bdObj \in ObjPaths
    /\ bdParents \in BOOLEAN
    /\ bdJob = [builder |-> "none", op |-> "none", src |-> <<>>, dst |-> <<>>]

S3BatchDownload ==
    /\ bdJob.builder = "none"
    /\ \E commandOp \in {"BatchDownload", "AliasBatchGet"} :
          bdJob' = MakeJob("download", S3BatchDownloadOp(commandOp), bdObj,
                           S3BatchDownloadDst(bdDst, bdObj, bdParents))
    /\ UNCHANGED <<poolVars, moreVars, unitVars, lcVars, stVars, lbVars, prVars, bdDst, bdObj, bdParents>>

S3BatchCopy ==
    /\ bdJob.builder = "none"
    /\ bdJob' = MakeJob("copy", S3BatchCopyOp("BatchCopy"), bdObj,
                        S3BatchCopyDst(bdDst, bdObj, bdParents))
    /\ UNCHANGED <<poolVars, moreVars, unitVars, lcVars, stVars, lbVars, prVars, bdDst, bdObj, bdParents>>

BdNext == S3BatchDownload \/ S3BatchCopy

\* Only the batch builders is active.
BdSpecInit ==
    /\ PoolIdle
    /\ MoreRest
    /\ UnitRest
    /\ LcRest
    /\ BdInit
    /\ StRest
    /\ LbRest
    /\ PrRest

BdSpec == BdSpecInit /\ [][BdNext]_vars

\* ------------------------------------------------------- storage (S3)
StorageOps == {"List", "Copy", "Get", "Put", "Remove", "ListBuckets"}

\* A key of a page either matches the URL or does not.
Keys == {"match", "nomatch"}

\* The backend's answer to a listing: at least one page; the last page is
\* the one that is not truncated.
PageSeqs ==
    {ps \in SeqsUpTo(SeqsUpTo(Keys, MaxPageLen), MaxPages) : Len(ps) >= 1}

\* The SDK request of the operation is made with the caller's context;
\* Copy calls CopyObject, which takes none.
UsesCtx(op) == op # "Copy"

\* The errors an SDK request can return when the context is, or is not,
\* done.
SdkErrors(op, done) ==
    IF UsesCtx(op) /\ done THEN {ErrCanceled} ELSE {NoError, "fail"}

StInit ==
    /\ sctx = FALSE
    /\ sop = "none"
    /\ spc = "idle"
    /\ sres = "none"
    /\ pages \in PageSeqs
    /\ pageNo = 0
    /\ itemNo = 0
    /\ itemChan = <<>>
    /\ chanReturned = FALSE

\* A caller invokes a storage operation.
StCall(op) ==
    /\ spc = "idle"
    /\ sop' = op
    /\ spc' = IF op = "List" THEN "fetch" ELSE "request"
    /\ UNCHANGED <<poolVars, moreVars, unitVars, lcVars, bdVars, lbVars, prVars, sctx, sres, pages,
                   pageNo, itemNo, itemChan, chanReturned>>

\* Copy, Get, Put, Remove, ListBuckets: one SDK request, whose error is
\* returned.
StReturn ==
    /\ spc = "request"
    /\ sres' \in SdkErrors(sop, sctx)
    /\ spc' = "ret"
    /\ UNCHANGED <<poolVars, moreVars, unitVars, lcVars, bdVars, lbVars, prVars, sctx, sop, pages,
                   pageNo, itemNo, itemChan, chanReturned>>

\* List: ListObjectsV2PagesWithContext requests the next page and calls
\* the callback with it; a failed request makes List return (nil, err).
ListFetch ==
    /\ spc = "fetch"
    /\ pageNo < Len(pages)
    /\ \E e \in SdkErrors("List", sctx) :
          IF e = NoError
          THEN /\ pageNo' = pageNo + 1
               /\ itemNo' = 1
               /\ spc' = "page"
               /\ sres' = sres
          ELSE /\ sres' = e
               /\ spc' = "ret"
               /\ UNCHANGED <<pageNo, itemNo>>
    /\ UNCHANGED <<poolVars, moreVars, unitVars, lcVars, bdVars, lbVars, prVars, sctx, sop, pages,
                   itemChan, chanReturned>>

\* The callback skips a key that does not match.
ListSkip ==
    /\ spc = "page"
    /\ itemNo <= Len(pages[pageNo])
    /\ pages[pageNo][itemNo] = "nomatch"
    /\ itemNo' = itemNo + 1
    /\ UNCHANGED <<poolVars, moreVars, unitVars, lcVars, bdVars, lbVars, prVars, sctx, sop, spc, sres,
                   pages, pageNo, itemChan, chanReturned>>

\* The callback reaches `itemChan <- item`, or `itemChan <- nil` at the end
\* of the page that is not truncated.  itemChan is unbuffered and local to
\* List until List returns it, so no receiver exists and the send stays
\* pending; `return itemChan, nil` follows the callback of the last page,
\* which ends in the send of nil.
ListSend ==
    /\ spc = "page"
    /\ \/ /\ itemNo <= Len(pages[pageNo])
          /\ pages[pageNo][itemNo] = "match"
          /\ itemChan' = <<"match">>
       \/ /\ itemNo > Len(pages[pageNo])
          /\ pageNo = Len(pages)
          /\ itemChan' = <<"eof">>
    /\ spc' = "send"
    /\ UNCHANGED <<poolVars, moreVars, unitVars, lcVars, bdVars, lbVars, prVars, sctx, sop, sres,
                   pages, pageNo, itemNo, chanReturned>>

\* The callback returns true after a truncated page: the next page is
\* requested.
ListNextPage ==
    /\ spc = "page"
    /\ itemNo > Len(pages[pageNo])
    /\ pageNo < Len(pages)
    /\ spc' = "fetch"
    /\ UNCHANGED <<poolVars, moreVars, unitVars, lcVars, bdVars, lbVars, prVars, sctx, sop, sres,
                   pages, pageNo, itemNo, itemChan, chanReturned>>

\* The context of the call is cancelled.
StCancel ==
    /\ ~sctx
    /\ sctx' = TRUE
    /\ UNCHANGED <<poolVars, moreVars, unitVars, lcVars, bdVars, lbVars, prVars, sop, spc, sres,
                   pages, pageNo, itemNo, itemChan, chanReturned>>

StNext ==
    \/ \E op \in StorageOps : StCall(op)
    \/ StReturn
    \/ ListFetch
    \/ ListSkip
    \/ ListSend
    \/ ListNextPage
    \/ StCancel

\* Only the storage call is active.
StSpecInit ==
    /\ PoolIdle
    /\ MoreRest
    /\ UnitRest
    /\ LcRest
    /\ BdRest
    /\ StInit
    /\ LbRest
    /\ PrRest

StSpec == StSpecInit /\ [][StNext]_vars

\* The SDK and the page callback keep running: a step of the call that can
\* be taken is taken.  Neither a caller nor a cancellation is obliged.
StProgress == StReturn \/ ListFetch \/ ListSkip \/ ListSend \/ ListNextPage

FairStSpec == StSpec /\ WF_vars(StProgress)

\* ----------------------------------------------------------- ListBuckets
\* Bucket names and prefixes are strings of at most MaxNameLen characters.
BucketNames == {n \in SeqsUpTo(Names, MaxNameLen) : Len(n) >= 1}
Prefixes    == SeqsUpTo(Names, MaxNameLen)

\* What the backend answers: its buckets, each once, in its order.
Backends ==
    {bs \in SeqsUpTo(BucketNames, MaxBuckets) :
        \A i, j \in 1..Len(bs) : i # j => bs[i] # bs[j]}

\* strings.HasPrefix
HasPrefix(str, prefix) ==
    /\ Len(prefix) <= Len(str)
    /\ SubSeq(str, 1, Len(prefix)) = prefix

\* The loop of ListBuckets over o.Buckets: for a bucket that passes the
\* test, prefix is appended.
RECURSIVE ListBucketNames(_, _)
ListBucketNames(bs, prefix) ==
    IF bs = <<>> THEN <<>>
    ELSE (IF prefix = <<>> \/ HasPrefix(Head(bs), prefix)
          THEN <<prefix>> ELSE <<>>)
            \o ListBucketNames(Tail(bs), prefix)

LbInit ==
    /\ lbBackend \in Backends
    /\ lbPrefix \in Prefixes
    /\ lbRet = [buckets |-> <<>>, err |-> "none"]

\* ListBuckets: the request fails and (nil, err) is returned, or the names
\* collected by the loop are.
ListBuckets ==
    /\ lbRet.err = "none"
    /\ \E e \in {NoError, "fail"} :
          lbRet' = [buckets |-> IF e = NoError
                                THEN ListBucketNames(lbBackend, lbPrefix)
                                ELSE <<>>,
                    err |-> e]
    /\ UNCHANGED <<poolVars, moreVars, unitVars, lcVars, bdVars, stVars, prVars, lbBackend, lbPrefix>>

LbNext == ListBuckets

\* Only the ListBuckets call is active.
LbSpecInit ==
    /\ PoolIdle
    /\ MoreRest
    /\ UnitRest
    /\ LcRest
    /\ BdRest
    /\ StRest
    /\ LbInit
    /\ PrRest

LbSpec == LbSpecInit /\ [][LbNext]_vars

\* ------------------------------------------------- PrintOK and PrintErr
CounterValues == {Nil} \cup (0..MaxCount)

Deref(c) == IF c = Nil THEN 0 ELSE c

\* A job that has run: its operation is internal or not, it is a sub-job
\* or not, and each of its three counters is nil or holds a count.
PrInit ==
    /\ prpc = "ended"
    /\ prJob \in [internal : BOOLEAN, isSubJob : BOOLEAN,
                   cnt : [numSuccess : CounterValues, numFails : CounterValues,
                          numAcceptableFails : CounterValues]]
    /\ prCnt = prJob.cnt
    /\ prLog = <<>>
    /\ prShort = <<>>

\* Job.out counting an acceptable failure as a success as well.
OutBoth(cnt, short) ==
    [numSuccess |->
        IF cnt.numSuccess # Nil /\ short \in {"+", "+?"}
        THEN cnt.numSuccess + 1 ELSE cnt.numSuccess,
     numAcceptableFails |->
        IF cnt.numAcceptableFails # Nil /\ short = "+?"
        THEN cnt.numAcceptableFails + 1 ELSE cnt.numAcceptableFails,
     numFails |->
        IF cnt.numFails # Nil /\ short = "-"
        THEN cnt.numFails + 1 ELSE cnt.numFails]

\* Job.out: the counter of the short code is incremented when it is set.
Out(cnt, short) ==
    [numSuccess |->
        IF cnt.numSuccess # Nil /\ short = "+"
        THEN cnt.numSuccess + 1 ELSE cnt.numSuccess,
     numAcceptableFails |->
        IF cnt.numAcceptableFails # Nil /\ short = "+?"
        THEN cnt.numAcceptableFails + 1 ELSE cnt.numAcceptableFails,
     numFails |->
        IF cnt.numFails # Nil /\ short = "-"
        THEN cnt.numFails + 1 ELSE cnt.numFails]

\* okStr of PrintOK when the acceptable failures are not looked at.
OkStrPlain(cnt) == "OK"

\* okStr of PrintOK.
OkStr(cnt) ==
    IF cnt.numAcceptableFails # Nil /\ cnt.numAcceptableFails > 0
    THEN "OK?" ELSE "OK"

\* totalSuccess of PrintOK.
TotalSuccess(cnt) ==
    (IF cnt.numSuccess # Nil THEN cnt.numSuccess ELSE 0)
        + (IF cnt.numAcceptableFails # Nil THEN cnt.numAcceptableFails ELSE 0)

\* The line PrintOK logs for a job that is no sub-job: marker, the count
\* and the failures, each 0 when the line does not show it.
OkLine(cnt) ==
    LET total == TotalSuccess(cnt)
        fails == IF cnt.numFails # Nil /\ cnt.numFails > 0 THEN cnt.numFails ELSE 0
    IN  [marker |-> "+" \o OkStr(cnt), count |-> total, failed |-> fails]

\* Job.PrintOK
PrintOK ==
    /\ prpc = "ended"
    /\ prpc' = "ok"
    /\ IF prJob.internal
       THEN UNCHANGED <<prCnt, prLog, prShort>>
       ELSE IF prJob.isSubJob
       THEN /\ prShort' = Append(prShort, "+")
            /\ prCnt' = Out(prCnt, "+")
            /\ prLog' = prLog
       ELSE /\ prLog' = Append(prLog, OkLine(prCnt))
            /\ UNCHANGED <<prCnt, prShort>>
    /\ UNCHANGED <<poolVars, moreVars, unitVars, lcVars, bdVars, stVars, lbVars, prJob>>

\* Job.PrintErr
PrintErr ==
    /\ prpc = "ended"
    /\ prpc' = "err"
    /\ IF prJob.internal
       THEN UNCHANGED <<prCnt, prLog, prShort>>
       ELSE IF prJob.isSubJob
       THEN /\ prShort' = Append(prShort, "-")
            /\ prCnt' = Out(prCnt, "-")
            /\ prLog' = prLog
       ELSE /\ prLog' = Append(prLog, [marker |-> "-ERR", count |-> 0, failed |-> 0])
            /\ UNCHANGED <<prCnt, prShort>>
    /\ UNCHANGED <<poolVars, moreVars, unitVars, lcVars, bdVars, stVars, lbVars, prJob>>

PrNext == PrintOK \/ PrintErr

\* Only the reporting of a job is active.
PrSpecInit ==
    /\ PoolIdle
    /\ MoreRest
    /\ UnitRest
    /\ LcRest
    /\ BdRest
    /\ StRest
    /\ LbRest
    /\ PrInit

PrSpec == PrSpecInit /\ [][PrNext]_vars

\* ------------------------------- sub-jobs sharing the counters of their parent
\* A batch job makes its sub-jobs with MakeSubJob; the worker that ran a
\* sub-job reports how it ended.

SubJobOutcomes == {"ok", "acceptable", "fail"}

\* A batch job: its three counters are allocated and zero.
SjInit ==
    /\ sjCnt = [numSuccess |-> 0, numFails |-> 0, numAcceptableFails |-> 0]
    /\ sjDone = <<>>

\* Job.MakeSubJob: the new job is a sub-job and holds the counters of j.
MakeSubJob(j, internal) ==
    [internal |-> internal, isSubJob |-> TRUE, cnt |-> j.cnt]

\* The short code Job.out is called with for a sub-job that ended so.
ShortOf(outcome) ==
    CASE outcome = "ok" -> "+"
      [] outcome = "acceptable" -> "+?"
      [] outcome = "fail" -> "-"

\* A sub-job of the batch job completes and is reported: PrintOK,
\* PrintErr, or the short line of an acceptable failure.
SubJobEnds(internal, outcome) ==
    LET parent == [internal |-> FALSE, isSubJob |-> FALSE, cnt |-> sjCnt]
        sub == MakeSubJob(parent, internal)
    IN  /\ Len(sjDone) < MaxSubJobs
        /\ sjDone' = Append(sjDone, [internal |-> internal, outcome |-> outcome])
        /\ sjCnt' = IF sub.internal THEN sjCnt ELSE Out(sub.cnt, ShortOf(outcome))
        /\ UNCHANGED <<poolVars, unitVars, lcVars, bdVars, stVars, lbVars, prVars,
                       dlVars, lgVars, slVars>>

SjNext == \E internal \in BOOLEAN, outcome \in SubJobOutcomes : SubJobEnds(internal, outcome)

\* Only a batch job and its sub-jobs are active.
SjSpecInit ==
    /\ PoolIdle
    /\ CoreRest
    /\ SjInit
    /\ DlRest
    /\ LgRest
    /\ SlRest

SjSpec == SjSpecInit /\ [][SjNext]_vars

\* ------------------------------------------------------------ batch delete
\* The batch delete holds the keys its listing yields and hands them to
\* S3.Remove in batches; the keys are numbered in the order listed.

\* The most keys one request may hold.
DeleteBatchSize == 1000

\* S3.Remove sending only the first of the keys it is given.
RemoveRequestFirst(keys) == IF keys = {} THEN {} ELSE {CHOOSE k \in keys : \A l \in keys : k <= l}

\* S3.Remove: the Objects of its one DeleteObjects request, an identifier
\* for each key it is given.
RemoveRequest(keys) == keys

DlInit ==
    /\ dlpc = "list"
    /\ dlListed = 0
    /\ dlAcc = {}
    /\ dlReqs = <<>>

\* The listing yields a key: it is held, and the keys held are sent once
\* they are a full batch.
DlKey ==
    /\ dlpc = "list"
    /\ dlListed < MaxKeys
    /\ dlListed' = dlListed + 1
    /\ LET held == dlAcc \cup {dlListed + 1}
       IN  IF Cardinality(held) >= DeleteBatchSize
           THEN /\ dlReqs' = Append(dlReqs, RemoveRequest(held))
                /\ dlAcc' = {}
           ELSE /\ dlAcc' = held
                /\ dlReqs' = dlReqs
    /\ UNCHANGED <<poolVars, unitVars, lcVars, bdVars, stVars, lbVars, prVars,
                   sjVars, lgVars, slVars, dlpc>>

\* The listing ends: the keys still held are sent.
DlFlush ==
    /\ dlpc = "list"
    /\ dlpc' = "done"
    /\ IF dlAcc # {}
       THEN /\ dlReqs' = Append(dlReqs, RemoveRequest(dlAcc))
            /\ dlAcc' = {}
       ELSE UNCHANGED <<dlReqs, dlAcc>>
    /\ UNCHANGED <<poolVars, unitVars, lcVars, bdVars, stVars, lbVars, prVars,
                   sjVars, lgVars, slVars, dlListed>>

DlNext == DlKey \/ DlFlush

\* Only a batch delete is active.
DlSpecInit ==
    /\ PoolIdle
    /\ CoreRest
    /\ SjRest
    /\ DlInit
    /\ LgRest
    /\ SlRest

DlSpec == DlSpecInit /\ [][DlNext]_vars

\* ------------------------------------------------------------------ logger
\* The tasks of the program call printf; the writer task started by New
\* prints what arrives on stdoutCh; Close closes stdoutCh and waits for
\* the writer.  lgSent holds the level of every call of printf, and a
\* message is named by the index of its call.

\* levelDebug, levelInfo, levelWarning, levelError
LogLevels == 0..3

\* The capacity of stdoutCh.
StdoutCap == 10000

\* printf: the message is dropped when its level is below the logger's.
Dropped(level, configured) == level < configured

\* New: the level of the flag, an open and empty stdoutCh, the writer started.
LgInit ==
    /\ lgLevel \in LogLevels
    /\ stdoutCh = <<>>
    /\ stdoutClosed = FALSE
    /\ donech = FALSE
    /\ lgOut = <<>>
    /\ lgSent = <<>>
    /\ lgClose = [pc |-> "none", sent |-> 0]
    /\ lgPanic = FALSE

\* printf: a message that is not dropped is sent on stdoutCh; the send
\* waits while the buffer is full and panics when stdoutCh is closed.
Printf(level) ==
    /\ ~lgPanic
    /\ Len(lgSent) < MaxMsgs
    /\ lgSent' = Append(lgSent, level)
    /\ IF Dropped(level, lgLevel)
       THEN UNCHANGED <<stdoutCh, lgPanic>>
       ELSE IF stdoutClosed
       THEN /\ lgPanic' = TRUE
            /\ stdoutCh' = stdoutCh
       ELSE /\ Len(stdoutCh) < StdoutCap
            /\ stdoutCh' = Append(stdoutCh, Len(lgSent) + 1)
            /\ lgPanic' = lgPanic
    /\ UNCHANGED <<poolVars, unitVars, lcVars, bdVars, stVars, lbVars, prVars,
                   sjVars, dlVars, slVars, lgLevel, stdoutClosed, donech, lgOut,
                   lgClose>>

\* stdout: the writer receives the next message and prints it.
StdoutWrite ==
    /\ ~lgPanic
    /\ ~donech
    /\ stdoutCh # <<>>
    /\ lgOut' = Append(lgOut, Head(stdoutCh))
    /\ stdoutCh' = Tail(stdoutCh)
    /\ UNCHANGED <<poolVars, unitVars, lcVars, bdVars, stVars, lbVars, prVars,
                   sjVars, dlVars, slVars, lgLevel, stdoutClosed, donech, lgSent,
                   lgClose, lgPanic>>

\* stdout: the range ends when stdoutCh is closed and empty; donech is
\* closed.
StdoutExit ==
    /\ ~lgPanic
    /\ ~donech
    /\ stdoutCh = <<>>
    /\ stdoutClosed
    /\ donech' = TRUE
    /\ UNCHANGED <<poolVars, unitVars, lcVars, bdVars, stVars, lbVars, prVars,
                   sjVars, dlVars, slVars, lgLevel, stdoutCh, stdoutClosed, lgOut,
                   lgSent, lgClose, lgPanic>>

\* Close: close(stdoutCh)
LoggerClose ==
    /\ ~lgPanic
    /\ lgClose.pc = "none"
    /\ stdoutClosed' = TRUE
    /\ lgClose' = [pc |-> "wait", sent |-> Len(lgSent)]
    /\ UNCHANGED <<poolVars, unitVars, lcVars, bdVars, stVars, lbVars, prVars,
                   sjVars, dlVars, slVars, lgLevel, stdoutCh, donech, lgOut,
                   lgSent, lgPanic>>

\* Close: <-l.donech
LoggerCloseReturn ==
    /\ ~lgPanic
    /\ lgClose.pc = "wait"
    /\ donech
    /\ lgClose' = [lgClose EXCEPT !.pc = "returned"]
    /\ UNCHANGED <<poolVars, unitVars, lcVars, bdVars, stVars, lbVars, prVars,
                   sjVars, dlVars, slVars, lgLevel, stdoutCh, stdoutClosed, donech,
                   lgOut, lgSent, lgPanic>>

LgNext ==
    \/ \E level \in LogLevels : Printf(level)
    \/ StdoutWrite
    \/ StdoutExit
    \/ LoggerClose
    \/ LoggerCloseReturn

\* Only the logger is active.
LgSpecInit ==
    /\ PoolIdle
    /\ CoreRest
    /\ SjRest
    /\ DlRest
    /\ LgInit
    /\ SlRest

LgSpec == LgSpecInit /\ [][LgNext]_vars

\* ------------------------------------------------------------------ s3list
\* s3list pages through a listing and sends what matches on the emitChan
\* of its caller, who receives from it or not.  An item is named by its
\* page and its place in the page; EOF is the nil sent after the last page.

EOF == [pg |-> 0, it |-> 0]

\* s3list returning the error of the paging call whatever was observed.
S3listResultPlain(err, canc) == err

\* s3list: ErrInterrupted when the paging call returned no error and the
\* canceled flag is set, else the error of the paging call.
S3listResult(err, canc) ==
    IF err = NoError /\ canc THEN ErrInterrupted ELSE err

\* The call has been made: the storage state is that of a listing, and
\* the paging call is about to request the first page.
SlInit ==
    /\ slpc = "fetch"
    /\ canceled = FALSE
    /\ emitChan = <<>>
    /\ emitted = <<>>
    /\ emitClosed = FALSE
    /\ pagingErr = "none"

\* ListObjectsV2PagesWithContext requests the next page and calls the
\* callback with it, or fails and returns its error.
S3listFetch ==
    /\ slpc = "fetch"
    /\ pageNo < Len(pages)
    /\ \E e \in SdkErrors("List", sctx) :
          IF e = NoError
          THEN /\ pageNo' = pageNo + 1
               /\ itemNo' = 1
               /\ slpc' = "check"
               /\ pagingErr' = pagingErr
          ELSE /\ pagingErr' = e
               /\ slpc' = "after"
               /\ UNCHANGED <<pageNo, itemNo>>
    /\ UNCHANGED <<poolVars, unitVars, lcVars, bdVars, lbVars, prVars, sjVars,
                   dlVars, lgVars, sctx, sop, spc, pages, itemChan, chanReturned,
                   emitClosed, sres, canceled, emitChan, emitted>>

\* The callback begins with isCanceled(): on a done context the flag is
\* set and the callback returns false, which ends the paging without error.
S3listCheck ==
    /\ slpc = "check"
    /\ IF sctx
       THEN /\ canceled' = TRUE
            /\ pagingErr' = NoError
            /\ slpc' = "after"
       ELSE /\ slpc' = "page"
            /\ UNCHANGED <<canceled, pagingErr>>
    /\ UNCHANGED <<poolVars, unitVars, lcVars, bdVars, lbVars, prVars, sjVars,
                   dlVars, lgVars, sctx, sop, spc, pages, itemChan, chanReturned,
                   emitClosed, sres, pageNo, itemNo, emitChan, emitted>>

\* The callback skips a key that does not match.
S3listSkip ==
    /\ slpc = "page"
    /\ itemNo <= Len(pages[pageNo])
    /\ pages[pageNo][itemNo] = "nomatch"
    /\ itemNo' = itemNo + 1
    /\ UNCHANGED <<poolVars, unitVars, lcVars, bdVars, lbVars, prVars, sjVars,
                   dlVars, lgVars, sctx, sop, spc, pages, itemChan, chanReturned,
                   emitClosed, sres, pageNo, slpc, canceled, emitChan, emitted, pagingErr>>

\* emit: the callback reaches the select with the next matching key, or
\* with nil after the keys of the page that is not truncated.
S3listEmit ==
    /\ slpc = "page"
    /\ \/ /\ itemNo <= Len(pages[pageNo])
          /\ pages[pageNo][itemNo] = "match"
          /\ emitChan' = <<[pg |-> pageNo, it |-> itemNo]>>
       \/ /\ itemNo > Len(pages[pageNo])
          /\ pageNo = Len(pages)
          /\ emitChan' = <<EOF>>
    /\ slpc' = "emit"
    /\ UNCHANGED <<poolVars, unitVars, lcVars, bdVars, lbVars, prVars, sjVars,
                   dlVars, lgVars, sctx, sop, spc, pages, itemChan, chanReturned,
                   emitClosed, sres, pageNo, itemNo, canceled, emitted, pagingErr>>

\* The keys of a truncated page are done: no EOF is sent.
S3listEndPage ==
    /\ slpc = "page"
    /\ itemNo > Len(pages[pageNo])
    /\ pageNo < Len(pages)
    /\ slpc' = "tail"
    /\ UNCHANGED <<poolVars, unitVars, lcVars, bdVars, lbVars, prVars, sjVars,
                   dlVars, lgVars, sctx, sop, spc, pages, itemChan, chanReturned,
                   emitClosed, sres, pageNo, itemNo, canceled, emitChan, emitted, pagingErr>>

\* emit, case emitChan <- data: the caller receives; emit returns true.
S3listSent ==
    /\ slpc = "emit"
    /\ emitted' = Append(emitted, emitChan[1])
    /\ emitChan' = <<>>
    /\ IF emitChan[1] = EOF
       THEN /\ slpc' = "tail"
            /\ itemNo' = itemNo
       ELSE /\ slpc' = "page"
            /\ itemNo' = itemNo + 1
    /\ UNCHANGED <<poolVars, unitVars, lcVars, bdVars, lbVars, prVars, sjVars,
                   dlVars, lgVars, sctx, sop, spc, pages, itemChan, chanReturned,
                   emitClosed, sres, pageNo, canceled, pagingErr>>

\* emit, case <-ctx.Done(): the flag is set and emit returns false; the
\* callback then returns false, except after emit(nil), whose result it
\* does not look at.
S3listEmitCancel ==
    /\ slpc = "emit"
    /\ sctx
    /\ canceled' = TRUE
    /\ emitChan' = <<>>
    /\ IF emitChan[1] = EOF
       THEN /\ slpc' = "tail"
            /\ pagingErr' = pagingErr
       ELSE /\ slpc' = "after"
            /\ pagingErr' = NoError
    /\ UNCHANGED <<poolVars, unitVars, lcVars, bdVars, lbVars, prVars, sjVars,
                   dlVars, lgVars, sctx, sop, spc, pages, itemChan, chanReturned,
                   emitClosed, sres, pageNo, itemNo, emitted>>

\* return !isCanceled(): the paging goes on with the next page, or ends
\* without error after the last page or on a done context.
S3listTail ==
    /\ slpc = "tail"
    /\ IF sctx
       THEN /\ canceled' = TRUE
            /\ pagingErr' = NoError
            /\ slpc' = "after"
       ELSE IF pageNo < Len(pages)
       THEN /\ slpc' = "fetch"
            /\ UNCHANGED <<canceled, pagingErr>>
       ELSE /\ pagingErr' = NoError
            /\ slpc' = "after"
            /\ canceled' = canceled
    /\ UNCHANGED <<poolVars, unitVars, lcVars, bdVars, lbVars, prVars, sjVars,
                   dlVars, lgVars, sctx, sop, spc, pages, itemChan, chanReturned,
                   emitClosed, sres, pageNo, itemNo, emitChan, emitted>>

\* s3list returns.
S3listReturn ==
    /\ slpc = "after"
    /\ sres' = S3listResult(pagingErr, canceled)
    /\ slpc' = "ret"
    /\ UNCHANGED <<poolVars, unitVars, lcVars, bdVars, lbVars, prVars, sjVars,
                   dlVars, lgVars, sctx, sop, spc, pages, itemChan, chanReturned,
                   emitClosed, pageNo, itemNo, canceled, emitChan, emitted, pagingErr>>

\* The steps s3list takes by itself.
S3listProgress ==
    \/ S3listFetch
    \/ S3listCheck
    \/ S3listSkip
    \/ S3listEmit
    \/ S3listEndPage
    \/ S3listEmitCancel
    \/ S3listTail
    \/ S3listReturn

SlNext == S3listProgress \/ S3listSent \/ StCancel

\* Only s3list is active.
SlSpecInit ==
    /\ PoolIdle
    /\ UnitRest
    /\ LcRest
    /\ BdRest
    /\ StInit
    /\ LbRest
    /\ PrRest
    /\ SjRest
    /\ DlRest
    /\ LgRest
    /\ SlInit

SlSpec == SlSpecInit /\ [][SlNext]_vars

\* s3list keeps running; its caller need not receive, and nobody need cancel.
FairSlSpec == SlSpec /\ WF_vars(S3listProgress)

\* ------------------------------------------------------------------ main
\* SIGINT / SIGTERM: the signal task calls cancelFunc.
Signal ==
    /\ Alive
    /\ ~ctxDone
    /\ ctxDone' = TRUE
    /\ UNCHANGED <<fixedVars, mainQ, subQ, mainVars, workerVars, parentVars,
                   statVars, subJobCounter, doneCh, waiterpc, prodVars, histVars>>

\* wp.Run returns once no worker holds a job and either the queues are
\* drained or the context is done; main computes the exit code and exits.
Quiescent ==
    /\ \A w \in Workers : wpc[w] \in {"poll", "select", "stopped"}
    /\ ctxDone \/ (mainQ = <<>> /\ subQ = <<>>)

MainExit ==
    /\ Alive
    /\ Quiescent
    /\ exitStatus' = ExitStatusOf(exitCode, failops)
    /\ wpc' = [w \in Workers |-> "stopped"]
    /\ UNCHANGED <<fixedVars, mainQ, subQ, ctxDone, exitCode, exitsRun, failops,
                   intrFails, wjob, parentVars, statVars, subJobCounter, doneCh,
                   waiterpc, prodVars, histVars>>

WorkerNext(w) ==
    \/ WorkerPoll(w)
    \/ WorkerSelectSub(w)
    \/ WorkerSelectMain(w)
    \/ WorkerSelectDone(w)
    \/ WorkerRunSub(w)
    \/ WorkerRunPlain(w)
    \/ WorkerRunExit(w)
    \/ WildStart(w)

ParentNext(p) ==
    \/ ParentSelectDone(p)
    \/ ParentSelectCancel(p)
    \/ ParentLoad(p)
    \/ ParentReturn(p)

ProducerNext(p) ==
    \/ ProducerList(p)
    \/ ProducerRecv(p)
    \/ ProducerRecvCancel(p)
    \/ ProducerAdd(p)
    \/ ProducerCount(p)
    \/ ProducerSend(p)
    \/ ProducerSendCancel(p)

Next ==
    \/ \E w \in Workers : WorkerNext(w)
    \/ \E p \in Idx : ParentNext(p)
    \/ \E p \in Idx : WaiterWake(p)
    \/ \E p \in Idx : ProducerNext(p)
    \/ Signal
    \/ MainExit

Spec == Init /\ [][Next]_vars

TypeOK ==
    /\ ctxDone \in BOOLEAN
    /\ \A p \in Idx : wait[p] >= 0 /\ numSuccess[p] >= 0

\* Scheduling: every task that can take a step eventually takes one.  The
\* signal is not forced to arrive.
Fairness ==
    /\ \A w \in Workers : WF_vars(WorkerNext(w))
    /\ \A p \in Idx : /\ WF_vars(ParentNext(p))
                      /\ WF_vars(WaiterWake(p))
                      /\ WF_vars(ProducerNext(p))
    /\ WF_vars(MainExit)

FairSpec == Spec /\ Fairness

\* The pool on a command file of unitary jobs, without signals.
UnitNext ==
    \/ \E w \in Workers : WorkerPoll(w)
    \/ \E w \in Workers : WorkerSelectMain(w)
    \/ \E w \in Workers : WorkerSelectDone(w)
    \/ \E w \in Workers : WorkerRunAbort(w)
    \/ \E w \in Workers : WorkerRunUnit(w)
    \/ \E w \in Workers : WorkerRunUnknown(w)
    \/ MainExit

CmdSpec == UnitInit /\ [][UnitNext]_vars

\* ------------------------------------------------------------ properties
\* A sub-job of p is outstanding: counted and not yet notified, or built by
\* the callback and not yet submitted.
Outstanding(p) == wait[p] > 0 \/ prodpc[p] \in {"add", "count", "send"}

\* C1: without cancellation, a wildcard parent has returned only when none
\* of its sub-jobs is queued, running or still to be emitted.
C1_ParentAfterSubJobs ==
    \A p \in Idx : (ppc[p] = "ret" /\ ~ctxDone) => ~Outstanding(p)

\* C2: absent cancellation, every parent taken by a worker eventually
\* returns and every sub-job sent to the sub-job channel is eventually run.
C2_NoDeadlock ==
    \A p \in Idx :
        /\ [](ppc[p] = "select" => <>(ppc[p] = "ret" \/ ctxDone))
        /\ [](wait[p] > 0 => <>(wait[p] = 0 \/ ctxDone))

\* C3: a job with parent stats decrements the wait-counter exactly once,
\* whatever its outcome, and increments the parent's success counter exactly
\* when it succeeded; a job without parent stats changes no parent counter.
C3_NotifyOnce ==
    \A p \in Idx : /\ wait[p] = adds[p] - notified[p]
                   /\ numSuccess[p] = notifiedOK[p]

C3_Witness ==
    \E p \in Idx : notified[p] = 2 /\ notifiedOK[p] = 1 /\ ppc[p] = "ret"

\* C4: when a parent returns without cancellation, the sub-jobs it counted
\* are the sub-jobs dispatched to the sub-job channel, and the successes it
\* observed are at most that count.
C4_CountedIsDispatched ==
    [][\A p \in Idx :
          (ppc[p] = "cmp" /\ ppc'[p] = "ret" /\ ~ctxDone)
             => (subJobCounter[p] = sent[p] /\ sLoaded[p] <= subJobCounter[p])]_vars

\* C5: a parent that returned because the wait-counter was zero, without
\* cancellation, reports success exactly when the sub-jobs that notified
\* success are all the sub-jobs emitted.
C5_SuccessIffAll ==
    \A p \in Idx :
        (ppc[p] = "ret" /\ via[p] = "done" /\ ~ctxDone)
            => (result[p] = NoError <=> numSuccess[p] = subJobCounter[p])

\* C6: a parent that left its select because the context was cancelled
\* returns ErrInterrupted.
C6_CancelInterrupted ==
    \A p \in Idx : (ppc[p] = "ret" /\ via[p] = "cancel") => result[p] = ErrInterrupted

C8_OneSubJobPerItem ==
    \A p \in Idx : \A i \in 1..MaxItems : made[p][i] <= 1

\* C9: when no exit command ran, the exit code is 127 if a failure that is
\* neither acceptable nor an interruption was counted, and 0 otherwise.
C9_ExitCode ==
    (~Alive /\ exitsRun = {})
        => exitStatus = IF failops - intrFails > 0 THEN FailExitCode ELSE 0

\* C10: the process exit code is the N of every exit command that ran.
C10_ExitN ==
    ~Alive => \A n \in exitsRun : exitStatus = n

\* C10 (amended): exit N cancels the context and stores N; the exit code is
\* the stored N, except that a stored -1 stands for no exit code (127 if a
\* failure was counted, else 0); with one exit command, N # -1, it is N.
C10_ExitStored ==
    /\ exitsRun # {} => (ctxDone /\ exitCode \in exitsRun)
    /\ (~Alive /\ exitsRun # {}) =>
          /\ exitCode # DefaultExitCode => exitStatus = exitCode
          /\ exitCode = DefaultExitCode =>
                exitStatus = IF failops > 0 THEN FailExitCode ELSE 0
          /\ \A n \in ExitArgs :
                (exitsRun = {n} /\ n # DefaultExitCode) => exitStatus = n

C10_Witness ==
    ~Alive /\ exitsRun = {0} /\ failops > 0 /\ exitStatus = 0

\* The handler of job i of the command file has been run: the job has left
\* the main channel and no worker holds it.
Executed(i) ==
    /\ i \in 1..Len(file)
    /\ \A k \in 1..Len(mainQ) : mainQ[k] # i
    /\ \A w \in Workers : wjob[w] # MainJob(i)

AbortChain ==
    <<[op |-> "abort", n |-> 0], [op |-> "bad", n |-> 0], [op |-> "good", n |-> 0]>>

\* C11: for the command file abort-on-any-error, a failing job, a valid
\* job, the valid job is never executed and the exit code is 127.
C11_AbortChain ==
    file = AbortChain =>
        /\ ~Executed(3)
        /\ ~Alive => exitStatus = FailExitCode

C12_SiblingsUnaffected ==
    \A p \in Idx :
        (ppc[p] = "ret" /\ ~ctxDone /\ notified[p] > notifiedOK[p])
            => /\ \A i \in 1..Len(listing) :
                      listing[i] = "job" => made[p][i] >= 1
               /\ ~Outstanding(p)

\* C13: the source of a move is deleted only after the transfer succeeded:
\* whenever the source differs from its original state the job is a move,
\* the source is gone and the destination holds the original contents; a
\* successful run leaves the original contents in the destination and, for
\* a move, no source; a failed run leaves the source as it was.
C13_MoveAfterTransfer ==
    /\ lcSrc # lcOrig => (lcMove /\ lcSrc = Absent /\ lcDst = lcOrig)
    /\ (lcpc = "done" /\ lcRes = NoError)
          => (lcDst = lcOrig /\ (lcMove => lcSrc = Absent))
    /\ (lcpc = "done" /\ lcRes # NoError) => lcSrc = lcOrig

C13_Witness ==
    /\ lcpc = "done" /\ lcMove /\ lcRes = NoError
    /\ lcOrig # Absent /\ lcSrc = Absent /\ lcDst = lcOrig

\* dst joined with fn by exactly one separator.
JoinSep(dst, fn) ==
    IF dst = <<>> THEN fn
    ELSE IF dst[Len(dst)] = Sep THEN dst \o fn
    ELSE dst \o <<Sep>> \o fn

\* C14: the destination of a batch sub-job is the command's destination
\* joined by the separator with the object's base name, or with its path
\* under Parents, for both builders and whether or not the destination
\* ends with a separator.
C14_BatchDst ==
    bdJob.builder # "none"
        => bdJob.dst = JoinSep(bdDst, IF bdParents THEN bdObj ELSE PathBase(bdObj))

\* C15: a storage call that returns once the context is done returns a
\* cancellation error.
C15_CancelAware ==
    [][(sctx /\ spc # "ret" /\ spc' = "ret") => sres' = ErrCanceled]_vars

\* C16: List hands the stream to its caller before the items are consumed:
\* whenever List is sending an item, the caller holds the stream.
C16_LazyStream ==
    itemChan # <<>> => chanReturned

\* C17: a successful ListBuckets returns exactly the names of the buckets
\* whose name starts with prefix, each once and in backend order; all of
\* them when prefix is empty.
C17_ListBuckets ==
    lbRet.err = NoError
        => lbRet.buckets = SelectSeq(lbBackend, LAMBDA b : HasPrefix(b, lbPrefix))

\* C18: a successful job that is neither internal nor a sub-job logs one
\* line; its marker is +OK? exactly when the acceptable-fail counter is
\* positive, else +OK, and its count, shown when positive, is numSuccess +
\* numAcceptableFails.  An internal job logs nothing and leaves the
\* counters as they were, on success and on error.
C18_ResultLine ==
    /\ (prpc = "ok" /\ ~prJob.internal /\ ~prJob.isSubJob)
          => /\ Len(prLog) = 1 /\ prShort = <<>>
             /\ prLog[1].marker =
                    (IF Deref(prJob.cnt.numAcceptableFails) > 0 THEN "+OK?" ELSE "+OK")
             /\ prLog[1].count =
                    Deref(prJob.cnt.numSuccess) + Deref(prJob.cnt.numAcceptableFails)
    /\ (prpc \in {"ok", "err"} /\ prJob.internal)
          => (prLog = <<>> /\ prShort = <<>> /\ prCnt = prJob.cnt)

C18_Witness ==
    /\ prpc = "ok" /\ ~prJob.internal /\ ~prJob.isSubJob
    /\ prJob.cnt.numSuccess = 1 /\ prJob.cnt.numAcceptableFails = 1
    /\ Len(prLog) = 1 /\ prLog[1].marker = "+OK?" /\ prLog[1].count = 2

\* C20: the waiter does not observe the wait-counter at zero before the
\* first sub-job of a listing that starts with one has been counted; every
\* sub-job is counted before it is submitted and the counter is never
\* negative.
C20_AddBeforeObserve ==
    \A p \in Idx :
        /\ (waiterpc[p] = "done" /\ adds[p] = 0 /\ ~ctxDone)
              => ~(Len(listing) > 0 /\ listing[1] = "job")
        /\ sent[p] <= adds[p]
        /\ wait[p] >= 0

\* C21: the counters shared between tasks are written only by atomic add
\* and read only by atomic load: the parent is never about to read
\* subJobCounter with a plain read while the producer is about to write it
\* with a plain increment.
C21_AtomicCounters ==
    \A p \in Idx : ~(ppc[p] = "cmp" /\ prodpc[p] = "count")

Ended(outcome) == {i \in DOMAIN sjDone : ~sjDone[i].internal /\ sjDone[i].outcome = outcome}

\* C22: the sub-jobs share the counters of their parent, and each sub-job
\* that completes and is not internal increments exactly one of the three
\* by one: numSuccess counts the successes, numAcceptableFails the
\* acceptable failures, numFails the failures, and together they count the
\* completed sub-jobs.
C22_OneCounterPerSubJob ==
    /\ sjCnt.numSuccess = Cardinality(Ended("ok"))
    /\ sjCnt.numAcceptableFails = Cardinality(Ended("acceptable"))
    /\ sjCnt.numFails = Cardinality(Ended("fail"))
    /\ sjCnt.numSuccess + sjCnt.numAcceptableFails + sjCnt.numFails
         = Cardinality({i \in DOMAIN sjDone : ~sjDone[i].internal})

\* Sub-jobs of each outcome, and an internal one, have completed.
C22_Witness ==
    /\ \A o \in SubJobOutcomes : Ended(o) # {}
    /\ \E i \in DOMAIN sjDone : sjDone[i].internal

\* C23: the producer stops at the end of the listing: once the callback
\* has been given the last listed item, the next receive of the producer
\* finds the stream at its end, so that no further item reaches the
\* callback and the producer ends without a cancellation.
C23_StopsAtEnd ==
    \A p \in Idx :
        (prodpc[p] = "recv" /\ ~ctxDone /\ listing # <<>> /\ cur[p] = Len(listing))
            => stream[p] = <<>>

\* C24: a listing that is neither cancelled nor failed emits its matching
\* keys and then the nil EOF sentinel: the callback of a page always leads
\* to the send of the sentinel.
C24_EmitsThenEOF ==
    [](spc = "page" => <>(sctx \/ sres # "none" \/ itemChan = <<"eof">>))

\* C25: the job a batch callback builds is unitary: the download builder
\* makes a Download, the copy builder a Copy, each from the one URL of the
\* listed object, and neither operation fans out again.
C25_UnitarySubJobs ==
    /\ bdJob.builder = "download" => bdJob.op = "Download"
    /\ bdJob.builder = "copy" => bdJob.op = "Copy"
    /\ bdJob.builder # "none" => (bdJob.src = bdObj /\ bdJob.op \notin BatchOps)

\* The download builder has built the job of a listed object.
C25_Witness ==
    bdJob.builder = "download" /\ bdJob.src # <<>>

\* C26: a delete sends no more than 1000 keys in one Remove request: the
\* requests hold between one and 1000 keys each, every key listed is held
\* or in exactly one request, and when the delete has ended none is held.
C26_DeleteBatches ==
    /\ \A i \in DOMAIN dlReqs :
          Cardinality(dlReqs[i]) >= 1 /\ Cardinality(dlReqs[i]) <= 1000
    /\ \A i, j \in DOMAIN dlReqs : i # j => dlReqs[i] \cap dlReqs[j] = {}
    /\ \A i \in DOMAIN dlReqs : dlReqs[i] \cap dlAcc = {}
    /\ UNION {dlReqs[i] : i \in DOMAIN dlReqs} \cup dlAcc = 1..dlListed
    /\ dlpc = "done" => dlAcc = {}

\* A delete of more than 1000 keys has ended with a last request that is
\* not full.
C26_Witness ==
    /\ dlpc = "done"
    /\ dlListed > 1000
    /\ Len(dlReqs) = 2
    /\ Cardinality(dlReqs[2]) < 1000

\* The messages among the first n calls of printf that are not dropped.
RECURSIVE Accepted(_)
Accepted(n) ==
    IF n = 0 THEN <<>>
    ELSE IF lgSent[n] >= lgLevel THEN Append(Accepted(n - 1), n)
    ELSE Accepted(n - 1)

IsPrefix(a, b) == Len(a) <= Len(b) /\ \A i \in 1..Len(a) : a[i] = b[i]

\* C27: the log output is serialized by one writer: what has been written
\* is, in the order of the calls, a prefix of the messages at or above the
\* logger's level; once Close has returned every such message of a call
\* made before Close is written; and no message is sent on stdoutCh after
\* Close closed it.
C27_SerializedLog ==
    /\ IsPrefix(lgOut, Accepted(Len(lgSent)))
    /\ lgClose.pc = "returned" => IsPrefix(Accepted(lgClose.sent), lgOut)
    /\ ~lgPanic

\* C28: when the listing ends in an error after some items, the parent
\* still returns, never with the lister's error, and with success exactly
\* when every sub-job emitted before the error notified success.
C28_ListerError ==
    \A p \in Idx :
        (/\ ppc[p] = "ret" /\ via[p] = "done" /\ ~ctxDone
         /\ Len(listing) >= 2 /\ listing[Len(listing)] = "err")
            => /\ result[p] \in {NoError, ErrIncomplete}
               /\ result[p] = NoError <=> notifiedOK[p] = adds[p]

\* C29: s3list does not stay in a send on emitChan once the context is
\* done and never closes emitChan; it sets the canceled flag only on a done
\* context; and it returns ErrInterrupted exactly when the flag is set and
\* the paging call returned no error, else what the paging call returned.
C29_S3listCancel ==
    /\ []((slpc = "emit" /\ sctx) => <>(slpc # "emit"))
    /\ [](~emitClosed)
    /\ [](canceled => sctx)
    /\ [](slpc = "ret" =>
            /\ sres = ErrInterrupted <=> (canceled /\ pagingErr = NoError)
            /\ sres # ErrInterrupted => sres = pagingErr)

\* s3list has returned ErrInterrupted after its caller had received an item.
C29_Witness ==
    slpc = "ret" /\ sres = ErrInterrupted /\ emitted # <<>>

====
